---------------------------- MODULE Spec2Model ----------------------------
(***************************************************************************)
(* Model of src/src/App.tsx: the App component of the YouTube downloader   *)
(* front end.  The React state of the component, the metadata fetches in   *)
(* flight and the live interval timers are the state; every event handler  *)
(* (URL edit, fetch completion, format / quality / theme change, submit,   *)
(* timer tick, clear history) is one action.  The browser's event loop     *)
(* runs one handler, or one continuation after an await, at a time, and    *)
(* React re-renders between two of them, so the handlers of a render see   *)
(* the state as it is when they fire.                                      *)
(*                                                                         *)
(* Strings are sequences of one-character strings, so that getVideoId is   *)
(* computed on the characters as the regular expression computes it.       *)
(***************************************************************************)
EXTENDS Integers, Sequences, FiniteSets, TLC

VARIABLES
    url,                \* useState('')                      App.tsx:20
    format,             \* useState<'mp3'|'mp4'>('mp4')      App.tsx:21
    quality,            \* useState('720p')                  App.tsx:22
    isDarkMode,         \* useState(false)                   App.tsx:23
    history,            \* useState<DownloadHistory[]>([])   App.tsx:24
    isLoading,          \* useState(false)                   App.tsx:25
    progress,           \* useState(0)                       App.tsx:26
    metadata,           \* useState<VideoMetadata|null>(null) App.tsx:27
    isLoadingMetadata,  \* useState(false)                   App.tsx:28
    fetches,            \* calls of fetchMetadata suspended at an await
    timers,             \* live setInterval timers with the closure of their callback
    events,             \* number of user events (edit, setting, submit) so far
    edits,              \* number of change events of the URL field so far
    now,                \* the clock read by new Date()
    arg,                \* argument of the call of getVideoId under test
    ret                 \* its result, once the call has returned

vars == <<url, format, quality, isDarkMode, history, isLoading, progress,
          metadata, isLoadingMetadata, fetches, timers, events, edits, now,
          arg, ret>>

-----------------------------------------------------------------------------
(* Bounds of the model.                                                    *)

\* how many events (URL edits, format / quality / theme changes, submits)
\* the user produces
MaxEvents == 4

\* how many pieces the argument of the call of getVideoId under test has
MaxPieces == 3

-----------------------------------------------------------------------------
(* Values.  null is the empty tuple and a non-null value x the one-element *)
(* tuple <<x>>; undefined is a reserved string where a string is expected  *)
(* (a title, a quality) and the empty tuple where an object is (the        *)
(* optional metadata of a history entry).                                  *)

Null == << >>
Some(x) == << x >>
Undefined == "<undefined>"
Absent == << >>

Formats == {"mp3", "mp4"}
QualityOptions == {"1080p", "720p", "480p", "360p"}

-----------------------------------------------------------------------------
(* getVideoId: the regular expression of App.tsx:32.  Its parts, in order: *)
(* the anchor ^, a greedy run of the atom "." (any character but a line    *)
(* terminator), group 1 (one of six alternatives), group 2 (a greedy run   *)
(* of characters other than #, & and ?), a greedy run of ".".              *)

LineTerminators == {"\n", "\r"}

Letters ==
    {"a","b","c","d","e","f","g","h","i","j","k","l","m","n","o","p","q","r",
     "s","t","u","v","w","x","y","z",
     "A","B","C","D","E","F","G","H","I","J","K","L","M","N","O","P","Q","R",
     "S","T","U","V","W","X","Y","Z"}

Digits == {"0","1","2","3","4","5","6","7","8","9"}

WordChars == Letters \cup Digits \cup {"_"}

\* the class [^#&?]
IsIdChar(c) == c \notin {"#", "&", "?"}

\* the atom . (no s flag: any character but a line terminator)
IsDot(c) == c \notin LineTerminators

\* the atom \w
IsWord(c) == c \in WordChars

\* s has the literal characters lit at position i (1-based)
LitAt(s, i, lit) ==
    /\ i + Len(lit) - 1 <= Len(s)
    /\ \A k \in 1..Len(lit) : s[i + k - 1] = lit[k]

\* Length of what group 1 matches at position i, 0 when no alternative
\* matches there; the alternatives are tried in the order of the pattern.
Group1At(s, i) ==
    IF /\ LitAt(s, i, <<"y","o","u","t","u">>)
       /\ i + 8 <= Len(s)
       /\ IsDot(s[i + 5])
       /\ LitAt(s, i + 6, <<"b","e","/">>)                   THEN 9
    ELSE IF LitAt(s, i, <<"v","/">>)                         THEN 2
    ELSE IF /\ LitAt(s, i, <<"u","/">>)
            /\ i + 3 <= Len(s)
            /\ IsWord(s[i + 2])
            /\ s[i + 3] = "/"                                THEN 4
    ELSE IF LitAt(s, i, <<"e","m","b","e","d","/">>)         THEN 6
    ELSE IF LitAt(s, i, <<"w","a","t","c","h","?","v","=">>) THEN 8
    ELSE IF LitAt(s, i, <<"&","v","=">>)                     THEN 3
    ELSE 0

\* Number of characters the leading .* can take at most: the characters
\* before the first line terminator.
RECURSIVE DotStarMax(_, _)
DotStarMax(s, n) ==
    IF n < Len(s) /\ IsDot(s[n + 1]) THEN DotStarMax(s, n + 1) ELSE n

\* mutant of Backtrack: the leading run is lazy, the first place where
\* group 1 matches is taken instead of the last
RECURSIVE FirstFrom(_, _, _)
FirstFrom(s, k, n) ==
    IF k > n THEN -1
    ELSE IF Group1At(s, k + 1) > 0 THEN k
    ELSE FirstFrom(s, k + 1, n)

Backtrack_Lazy(s, n) == FirstFrom(s, 0, n)

\* The greedy leading .* gives characters back one at a time until group 1
\* matches right after it: n is the number of characters it still holds.
\* The result is that n, or -1 when the pattern does not match.
RECURSIVE Backtrack(_, _)
Backtrack(s, n) ==
    IF n < 0 THEN -1
    ELSE IF Group1At(s, n + 1) > 0 THEN n
    ELSE Backtrack(s, n - 1)

\* End (exclusive) of the greedy group 2, ([^#&?]*), that starts at i.
RECURSIVE Group2End(_, _)
Group2End(s, i) ==
    IF i <= Len(s) /\ IsIdChar(s[i]) THEN Group2End(s, i + 1) ELSE i

\* url.match(regExp): Null, or the one-element tuple holding match[2].
\* Once group 1 has matched, ([^#&?]*).* matches whatever follows, so the
\* first position the backtracking reaches is the match.
RegExpMatch(s) ==
    LET n == Backtrack(s, DotStarMax(s, 0))
    IN  IF n < 0 THEN Null
        ELSE LET from == n + 1 + Group1At(s, n + 1)
             IN  Some(SubSeq(s, from, Group2End(s, from) - 1))

IdLength == 11

getVideoId(s) ==
    LET match == RegExpMatch(s)
    IN  IF match # Null /\ Len(match[1]) = IdLength THEN Some(match[1]) ELSE Null

-----------------------------------------------------------------------------
(* What the user types into the URL field (e.target.value).               *)

IdA == <<"d","Q","w","4","w","9","W","g","X","c","Q">>
IdB == <<"9","b","Z","k","p","7","q","1","9","f","0">>

UrlA == <<"h","t","t","p","s",":","/","/","y","o","u","t","u",".","b","e","/">> \o IdA
UrlB == <<"h","t","t","p","s",":","/","/","y","t",".","c","o","m","/",
          "w","a","t","c","h","?","v","=">> \o IdB
UrlBad == <<"n","o","t"," ","a"," ","u","r","l">>

TypedUrls == {UrlA, UrlB, UrlBad}

\* <input type="url" required>: the browser submits the form only when the
\* field holds an absolute URL, that is when it starts with a scheme
\* (a letter, then letters, digits, "+", "-" or ".", then ":").
SchemeChars == Letters \cup Digits \cup {"+", "-", "."}

RECURSIVE SchemeEnd(_, _)
SchemeEnd(s, i) ==
    IF i <= Len(s) /\ s[i] \in SchemeChars THEN SchemeEnd(s, i + 1) ELSE i

FieldValid(s) ==
    /\ s # << >>
    /\ s[1] \in Letters
    /\ LET e == SchemeEnd(s, 1) IN e < Len(s) /\ s[e] = ":"

-----------------------------------------------------------------------------
(* fetchMetadata: the outcomes of fetch(...) and response.json().          *)

ResponseTitles == {"title1", "title2"}
ResponseAuthors == {"author1"}

\* kind "json": response.json() yields an object, whose title and author_name
\*   are read (undefined when the object lacks them);
\* kind "jsonNull": it yields null, and reading data.title throws;
\* kind "notJson": response.json() rejects;
\* kind "networkError": fetch rejects.
Responses ==
    [kind : {"json"}, title : ResponseTitles, author_name : ResponseAuthors]
    \cup {[kind |-> "json", title |-> Undefined, author_name |-> Undefined]}
    \cup [kind : {"jsonNull", "notJson", "networkError"},
          title : {Undefined}, author_name : {Undefined}]

ThumbnailUrl(videoId) ==
    <<"https://img.youtube.com/vi/">> \o videoId \o <<"/maxresdefault.jpg">>

\* mutant of VideoMetadata: the thumbnail is taken from the response
VideoMetadata_ResponseThumbnail(videoId, data) ==
    [title        |-> data.title,
     author       |-> data.author_name,
     description  |-> data.title,
     thumbnailUrl |-> <<"thumbnail_url of ", data.title>>]

\* the object passed to setMetadata in the try block
VideoMetadata(videoId, data) ==
    [title        |-> data.title,
     author       |-> data.author_name,
     description  |-> data.title,
     thumbnailUrl |-> ThumbnailUrl(videoId)]

\* the argument of the setMetadata call that fetchMetadata ends with
fetchMetadata(videoId, response) ==
    IF response.kind = "json"
    THEN Some(VideoMetadata(videoId, response))
    ELSE Null

-----------------------------------------------------------------------------
Init ==
    /\ url = << >>
    /\ format = "mp4"
    /\ quality = "720p"
    /\ isDarkMode = FALSE
    /\ history = << >>
    /\ isLoading = FALSE
    /\ progress = 0
    /\ metadata = Null
    /\ isLoadingMetadata = FALSE
    /\ fetches = {}
    /\ timers = {}
    /\ events = 0
    /\ edits = 0
    /\ now = 0
    /\ arg = << >>
    /\ ret = << >>

-----------------------------------------------------------------------------
(* Input Coordinator                                                       *)

\* mutant of handleUrlChange: the else branch does not clear the metadata
handleUrlChange_NoClear(newUrl) ==
    /\ events < MaxEvents
    /\ newUrl # url
    /\ events' = events + 1
    /\ edits' = edits + 1
    /\ url' = newUrl
    /\ LET videoId == getVideoId(newUrl)
       IN  IF videoId # Null
           THEN /\ isLoadingMetadata' = TRUE
                /\ fetches' = fetches \cup
                       {[videoId |-> videoId[1], token |-> edits + 1]}
                /\ UNCHANGED metadata
           ELSE UNCHANGED <<metadata, isLoadingMetadata, fetches>>
    /\ UNCHANGED <<format, quality, isDarkMode, history, isLoading,
                   progress, timers, now, arg, ret>>

\* mutant of handleUrlChange: an edit of the URL cancels the running
\* simulation
handleUrlChange_Cancels(newUrl) ==
    /\ events < MaxEvents
    /\ newUrl # url
    /\ events' = events + 1
    /\ edits' = edits + 1
    /\ url' = newUrl
    /\ timers' = {}
    /\ isLoading' = FALSE
    /\ progress' = 0
    /\ LET videoId == getVideoId(newUrl)
       IN  IF videoId # Null
           THEN /\ isLoadingMetadata' = TRUE
                /\ fetches' = fetches \cup
                       {[videoId |-> videoId[1], token |-> edits + 1]}
                /\ UNCHANGED metadata
           ELSE /\ metadata' = Null
                /\ UNCHANGED <<isLoadingMetadata, fetches>>
    /\ UNCHANGED <<format, quality, isDarkMode, history, now, arg, ret>>

\* handleUrlChange up to its await (or to its end, in the else branch).
\* A call of fetchMetadata in flight is recorded with its videoId and with
\* the number of the edit that launched it.
\* React calls onChange only when the value of the field has changed.
handleUrlChange(newUrl) ==
    /\ events < MaxEvents
    /\ newUrl # url
    /\ events' = events + 1
    /\ edits' = edits + 1
    /\ url' = newUrl
    /\ LET videoId == getVideoId(newUrl)
       IN  IF videoId # Null
           THEN /\ isLoadingMetadata' = TRUE
                /\ fetches' = fetches \cup
                       {[videoId |-> videoId[1], token |-> edits + 1]}
                /\ UNCHANGED metadata
           ELSE /\ metadata' = Null
                /\ UNCHANGED <<isLoadingMetadata, fetches>>
    /\ UNCHANGED <<format, quality, isDarkMode, history, isLoading,
                   progress, timers, now, arg, ret>>

\* The rest of fetchMetadata and of the handleUrlChange that awaits it: the
\* fetch f settles with response r, setMetadata is called in the try or in
\* the catch block, then setIsLoadingMetadata(false).
FetchSettles(f, r) ==
    /\ f \in fetches
    /\ fetches' = fetches \ {f}
    /\ metadata' = fetchMetadata(f.videoId, r)
    /\ isLoadingMetadata' = FALSE
    /\ UNCHANGED <<url, format, quality, isDarkMode, history, isLoading,
                   progress, timers, events, now, edits, arg, ret>>

-----------------------------------------------------------------------------
(* Format, quality, theme                                                  *)

setFormat(f) ==
    /\ events < MaxEvents
    /\ f # format
    /\ events' = events + 1
    /\ format' = f
    /\ UNCHANGED <<url, quality, isDarkMode, history, isLoading, progress,
                   metadata, isLoadingMetadata, fetches, timers, now,
                   edits, arg, ret>>

\* the <select> is rendered only when format is mp4
setQuality(q) ==
    /\ events < MaxEvents
    /\ format = "mp4"
    /\ q # quality
    /\ events' = events + 1
    /\ quality' = q
    /\ UNCHANGED <<url, format, isDarkMode, history, isLoading, progress,
                   metadata, isLoadingMetadata, fetches, timers, now,
                   edits, arg, ret>>

toggleDarkMode ==
    /\ events < MaxEvents
    /\ events' = events + 1
    /\ isDarkMode' = ~isDarkMode
    /\ UNCHANGED <<url, format, quality, history, isLoading, progress,
                   metadata, isLoadingMetadata, fetches, timers, now,
                   edits, arg, ret>>

-----------------------------------------------------------------------------
(* Download Simulator and History Store                                    *)

\* mutant of SubmitDisabled: the button forgets the metadata
SubmitDisabled_OnlyLoading == isLoading

\* the disabled attribute of the submit button
SubmitDisabled == isLoading \/ metadata = Null

\* The closure of the interval callback: the url, format, quality and
\* metadata of the render whose handleDownload created it.
Closure(handle) ==
    [handle |-> handle, url |-> url, format |-> format, quality |-> quality,
     metadata |-> metadata]

\* mutant of handleDownload: the submit empties the URL field
handleDownload_ClearsUrl ==
    /\ events < MaxEvents
    /\ ~SubmitDisabled
    /\ FieldValid(url)
    /\ events' = events + 1
    /\ isLoading' = TRUE
    /\ timers' = timers \cup {Closure(events + 1)}
    /\ url' = << >>
    /\ UNCHANGED <<format, quality, isDarkMode, history, progress,
                   metadata, isLoadingMetadata, fetches, now, edits, arg,
                   ret>>

\* mutant of handleDownload: setIsLoading(true) is forgotten
handleDownload_NoLoadingFlag ==
    /\ events < MaxEvents
    /\ ~SubmitDisabled
    /\ FieldValid(url)
    /\ events' = events + 1
    /\ timers' = timers \cup {Closure(events + 1)}
    /\ UNCHANGED <<url, format, quality, isDarkMode, history, progress,
                   isLoading, metadata, isLoadingMetadata, fetches, now,
                   edits, arg, ret>>

handleDownload ==
    /\ events < MaxEvents
    /\ ~SubmitDisabled
    /\ FieldValid(url)
    /\ events' = events + 1
    /\ isLoading' = TRUE
    /\ timers' = timers \cup {Closure(events + 1)}
    /\ UNCHANGED <<url, format, quality, isDarkMode, history, progress,
                   metadata, isLoadingMetadata, fetches, now, edits, arg,
                   ret>>

ProgressMax == 100
ProgressStep == 10

\* mutant of HistoryEntry: the quality is recorded whatever the format
HistoryEntry_AlwaysQuality(t, ts) ==
    [url       |-> t.url,
     format    |-> t.format,
     quality   |-> t.quality,
     timestamp |-> ts,
     metadata  |-> IF t.metadata # Null THEN t.metadata ELSE Absent]

\* mutant of HistoryEntry: the entry is built from the state at completion
HistoryEntry_Live(t, ts) ==
    [url       |-> url,
     format    |-> format,
     quality   |-> IF format = "mp4" THEN quality ELSE Undefined,
     timestamp |-> ts,
     metadata  |-> IF metadata # Null THEN metadata ELSE Absent]

\* the entry the callback of timer t builds at time ts
HistoryEntry(t, ts) ==
    [url       |-> t.url,
     format    |-> t.format,
     quality   |-> IF t.format = "mp4" THEN t.quality ELSE Undefined,
     timestamp |-> ts,
     metadata  |-> IF t.metadata # Null THEN t.metadata ELSE Absent]

\* mutant of Prepend: the entry is put at the end, [...prev, entry]
Prepend_AtEnd(entry, prev) == prev \o <<entry>>

\* setHistory(prev => [entry, ...prev])
Prepend(entry, prev) == <<entry>> \o prev

\* mutant of clearInterval: the timer is left running
clearInterval_Forgotten(t) == timers

\* clearInterval(interval)
clearInterval(t) == timers \ {t}

\* mutant of Finished: the tick that would bring the progress to 100 ends
\* the simulation
Finished_OnReach(prev) == prev + ProgressStep >= ProgressMax

\* mutant of Finished: the test is strict
Finished_Strict(prev) == prev > ProgressMax

\* the test prev >= 100 of the updater
Finished(prev) == prev >= ProgressMax

\* One firing of the interval callback of timer t: setProgress with the
\* updater of lines 75-90.
Tick(t) ==
    /\ t \in timers
    /\ IF Finished(progress)
       THEN /\ timers' = clearInterval(t)
            /\ isLoading' = FALSE
            /\ progress' = 0
            /\ history' = Prepend(HistoryEntry(t, now), history)
            /\ now' = now + 1
       ELSE /\ progress' = progress + ProgressStep
            /\ UNCHANGED <<timers, isLoading, history, now>>
    /\ UNCHANGED <<url, format, quality, isDarkMode, metadata,
                   isLoadingMetadata, fetches, events, edits, arg, ret>>

\* mutant of clearHistory: clearing also cancels the running simulation
clearHistory_Cancels ==
    /\ history # << >>
    /\ history' = << >>
    /\ timers' = {}
    /\ isLoading' = FALSE
    /\ progress' = 0
    /\ UNCHANGED <<url, format, quality, isDarkMode, metadata,
                   isLoadingMetadata, fetches, events, edits, now, arg, ret>>

\* the Clear History button is rendered only when the history is not empty
clearHistory ==
    /\ history # << >>
    /\ history' = << >>
    /\ UNCHANGED <<url, format, quality, isDarkMode, isLoading, progress,
                   metadata, isLoadingMetadata, fetches, timers, events,
                   edits, now, arg, ret>>

-----------------------------------------------------------------------------
Next ==
    \/ \E newUrl \in TypedUrls : handleUrlChange(newUrl)
    \/ \E f \in fetches, r \in Responses : FetchSettles(f, r)
    \/ \E f \in Formats : setFormat(f)
    \/ \E q \in QualityOptions : setQuality(q)
    \/ toggleDarkMode
    \/ handleDownload
    \/ \E t \in timers : Tick(t)
    \/ clearHistory

Spec == Init /\ [][Next]_vars

\* The browser fires a live interval timer every 500 ms: a tick that stays
\* due is eventually delivered.
SpecFair == Spec /\ WF_vars(\E t \in timers : Tick(t))

-----------------------------------------------------------------------------
(* getVideoId called on its own: the argument is put together from pieces  *)
(* (markers of the pattern, near misses of them, segments of 10, 11 and 12 *)
(* characters, the characters that end group 2, a line terminator).        *)

Seg10 == <<"a","b","c","d","e","f","g","h","i","j">>
Seg12 == <<"0","1","2","3","4","5","6","7","8","9","-","_">>

Pieces ==
    { <<"y","o","u","t","u",".","b","e","/">>,
      <<"y","o","u","t","u","X","b","e","/">>,
      <<"v","/">>,
      <<"u","/","1","/">>,
      <<"u","/","a","/">>,
      <<"e","m","b","e","d","/">>,
      <<"w","a","t","c","h","?","v","=">>,
      <<"&","v","=">>,
      IdA, Seg10, Seg12,
      <<"#">>, <<"&">>, <<"?">>, <<"x">>, <<"\n">> }

RECURSIVE Concatenations(_)
Concatenations(n) ==
    IF n = 0 THEN { << >> }
    ELSE LET shorter == Concatenations(n - 1)
         IN  shorter \cup { p \o q : p \in shorter, q \in Pieces }

ExtractInputs == Concatenations(MaxPieces)

InitExtract ==
    /\ arg \in ExtractInputs
    /\ ret = << >>
    /\ url = << >>
    /\ format = "mp4"
    /\ quality = "720p"
    /\ isDarkMode = FALSE
    /\ history = << >>
    /\ isLoading = FALSE
    /\ progress = 0
    /\ metadata = Null
    /\ isLoadingMetadata = FALSE
    /\ fetches = {}
    /\ timers = {}
    /\ events = 0
    /\ edits = 0
    /\ now = 0

CallGetVideoId ==
    /\ ret = << >>
    /\ ret' = Some(getVideoId(arg))
    /\ UNCHANGED <<url, format, quality, isDarkMode, history, isLoading,
                   progress, metadata, isLoadingMetadata, fetches, timers,
                   events, edits, now, arg>>

NextExtract == CallGetVideoId

SpecExtract == InitExtract /\ [][NextExtract]_vars

-----------------------------------------------------------------------------
(* Properties                                                              *)

\* A fetch in flight is stale when the URL field has been edited since the
\* edit that launched it.
Stale(f) == f.token # edits

\* C1: latest-wins race policy: a fetch that settles after a newer fetch was
\* launched, or after a later edit made the URL non-matching, does not
\* change the live metadata.
C1_LatestWins ==
    [][\A f \in fetches :
          (f \notin fetches' /\ Stale(f)) => metadata' = metadata]_vars

\* C2: a submission starts only when the metadata is present and no
\* simulation is running: never two live timers, every live timer and every
\* history entry was created with metadata present, the submit button is
\* enabled iff the metadata is non-null and isLoading is false, and
\* handleDownload can fire only then.
C2_SubmitGuard ==
    /\ Cardinality(timers) <= 1
    /\ \A t \in timers : t.metadata # Null
    /\ \A i \in 1..Len(history) : history[i].metadata # Absent
    /\ ~SubmitDisabled <=> (metadata # Null /\ ~isLoading)
    /\ (ENABLED handleDownload) => (metadata # Null /\ ~isLoading)

\* C2 witness: a simulation is running, started with metadata present
C2_Witness == isLoading /\ \E t \in timers : t.metadata # Null

\* C3: the tick that ends a simulation prepends exactly one entry to the
\* history and leaves no timer of it behind; no other step adds an entry.
C3_OneEntryPerSubmission ==
    [][/\ (isLoading /\ ~isLoading') =>
            /\ Len(history') = Len(history) + 1
            /\ Tail(history') = history
            /\ timers' = {}
       /\ ~(isLoading /\ ~isLoading') =>
            (history' = history \/ history' = << >>)]_vars

\* C3 witness: two submissions have completed, the history has two entries
C3_Witness == ~isLoading /\ Len(history) = 2 /\ now = 2

\* C4: every history entry has a quality iff its format is mp4, and the
\* quality of an mp4 entry is one of the selectable values.
C4_QualityIffMp4 ==
    \A i \in 1..Len(history) :
        /\ (history[i].quality # Undefined) <=> (history[i].format = "mp4")
        /\ history[i].format = "mp4" => history[i].quality \in QualityOptions

\* C4 witness: an mp3 entry in the history, the format toggled back to mp4
\* since its submission
C4_Witness ==
    /\ format = "mp4"
    /\ \E i \in 1..Len(history) :
          history[i].format = "mp3" /\ history[i].quality = Undefined

\* C5: the url, format, quality and metadata of an entry are those that were
\* live at submit: the closure created by a submit holds the live values, no
\* step changes the closure of a live timer, and the completing tick builds
\* the entry from the closure.
C5_SnapshotAtSubmit ==
    [][/\ \A t \in timers' \ timers :
             /\ t.url = url /\ t.format = format
             /\ t.quality = quality /\ t.metadata = metadata
       /\ (isLoading /\ ~isLoading') =>
             \E t \in timers :
                /\ history'[1].url = t.url
                /\ history'[1].format = t.format
                /\ history'[1].metadata = t.metadata
                /\ t.format = "mp4" => history'[1].quality = t.quality]_vars

\* C5 witness: the last tick of a simulation is due while the url, the
\* format and the metadata have all changed since the submit
C5_Witness ==
    /\ isLoading /\ progress = ProgressMax
    /\ \E t \in timers :
          t.url # url /\ t.format # format /\ t.metadata # metadata

\* C6: the progress stays within 0, 10, ..., 100, is 0 when no simulation
\* runs, is 0 when a simulation starts, and changes only by +10 in a tick of
\* a running simulation or by the reset to 0 of the completing tick.
C6_Progress ==
    /\ [](/\ progress \in {ProgressStep * k : k \in 0..10}
          /\ ~isLoading => progress = 0)
    /\ [][/\ (~isLoading /\ isLoading') => progress' = 0
          /\ progress' # progress =>
                \/ isLoading /\ isLoading' /\ progress' = progress + ProgressStep
                \/ isLoading /\ ~isLoading' /\ progress' = 0]_vars

\* C6 witness: a simulation has reached 100 after an earlier one completed
C6_Witness == isLoading /\ progress = ProgressMax /\ now = 1

\* C7: an edit to a value that getVideoId rejects leaves the metadata absent
\* and launches no fetch, whatever the state before.
C7_NonMatchingClears ==
    [][(url' # url /\ getVideoId(url') = Null) =>
          (metadata' = Null /\ fetches' = fetches)]_vars

\* C7 witness: the URL was edited to a non-matching value while a fetch was
\* in flight; the metadata is absent
C7_Witness ==
    getVideoId(url) = Null /\ url # << >> /\ fetches # {} /\ metadata = Null

\* C8: any failure of the fetch, a response lacking the expected fields
\* included, leaves the live metadata absent: the live metadata is never a
\* record built from a response without title or author_name.
C8_FailureGivesNoMetadata ==
    metadata # Null =>
        (metadata[1].title # Undefined /\ metadata[1].author # Undefined)

\* C9.  A marker is a sequence of character sets; it occurs at position i of
\* s when s has a character of each set, in order, from i on.
Alphabet ==
    WordChars \cup LineTerminators \cup
    {".", "/", "?", "=", "&", "#", ":", " ", "-", "+"}

Lit(w) == [k \in 1..Len(w) |-> {w[k]}]

\* the markers as the claim lists them
ClaimedMarkers ==
    { Lit(<<"y","o","u","t","u",".","b","e","/">>),
      Lit(<<"v","/">>),
      <<{"u"}, {"/"}, Digits, {"/"}>>,
      Lit(<<"e","m","b","e","d","/">>),
      Lit(<<"w","a","t","c","h","?","v","=">>),
      Lit(<<"&","v","=">>) }

\* the markers as the pattern has them: the dot of youtu.be stands for any
\* character but a line terminator, and \w for any word character
PatternMarkers ==
    { <<{"y"}, {"o"}, {"u"}, {"t"}, {"u"}, Alphabet \ LineTerminators,
        {"b"}, {"e"}, {"/"}>>,
      Lit(<<"v","/">>),
      <<{"u"}, {"/"}, WordChars, {"/"}>>,
      Lit(<<"e","m","b","e","d","/">>),
      Lit(<<"w","a","t","c","h","?","v","=">>),
      Lit(<<"&","v","=">>) }

OccursAt(s, i, m) ==
    /\ i + Len(m) - 1 <= Len(s)
    /\ \A k \in 1..Len(m) : s[i + k - 1] \in m[k]

\* the characters of s from position j up to the next "#", "&" or "?"
SegmentFrom(s, j) ==
    LET stop == CHOOSE e \in j..(Len(s) + 1) :
                    /\ e = Len(s) + 1 \/ s[e] \in {"#", "&", "?"}
                    /\ \A k \in j..(e - 1) : s[k] \notin {"#", "&", "?"}
    IN  SubSeq(s, j, stop - 1)

\* the places of s where a claimed marker occurs, with the marker
ClaimedPlaces(s) ==
    { x \in (1..Len(s)) \X ClaimedMarkers : OccursAt(s, x[1], x[2]) }

\* the segments of 11 characters that follow a claimed marker in s
ClaimedSegments(s) ==
    { g \in { SegmentFrom(s, x[1] + Len(x[2])) : x \in ClaimedPlaces(s) } :
        Len(g) = IdLength }

\* C9 as claimed: when s holds a claimed marker followed by a segment of 11
\* characters, getVideoId returns such a segment, and null for every other s.
C9_AsClaimed ==
    ret # << >> =>
        IF ClaimedSegments(arg) # {}
        THEN ret[1] # Null /\ ret[1][1] \in ClaimedSegments(arg)
        ELSE ret[1] = Null

\* the places of s where a marker of the pattern occurs with no line
\* terminator before it
MarkerPlaces(s) ==
    { i \in 1..Len(s) :
        /\ \E m \in PatternMarkers : OccursAt(s, i, m)
        /\ \A k \in 1..(i - 1) : s[k] \notin LineTerminators }

\* the segment that follows the last marker place of s
LastSegment(s) ==
    LET i == CHOOSE p \in MarkerPlaces(s) : \A q \in MarkerPlaces(s) : q <= p
        m == CHOOSE n \in PatternMarkers : OccursAt(s, i, n)
    IN  SegmentFrom(s, i + Len(m))

\* C9 as amended: getVideoId returns the segment that follows the last
\* marker of s that has no line terminator before it, when there is such a
\* marker and that segment has exactly 11 characters, and null otherwise;
\* the markers are those of the pattern.
C9_LastMarkerSegment ==
    ret # << >> =>
        IF MarkerPlaces(arg) # {} /\ Len(LastSegment(arg)) = IdLength
        THEN ret[1] = Some(LastSegment(arg))
        ELSE ret[1] = Null

\* C9 witness: the argument has two markers and the call returned the
\* 11 characters after the last one
C9_Witness ==
    /\ ret # << >> /\ ret[1] # Null
    /\ Cardinality(MarkerPlaces(arg)) >= 2
    /\ ret[1][1] = LastSegment(arg)

\* C10: a step that shortens the history empties it and changes nothing
\* else, the running timer included; the simulation that was running when
\* the history was cleared prepends its entry to the empty history.
C10_ClearHistory ==
    [][/\ Len(history') < Len(history) =>
             /\ history' = << >>
             /\ UNCHANGED <<url, metadata, format, quality, progress,
                            isLoading, isLoadingMetadata, isDarkMode,
                            timers, fetches>>
       /\ (history = << >> /\ isLoading /\ ~isLoading') =>
             Len(history') = 1]_vars

\* C10 witness: two simulations have completed and the history holds the
\* entry of the second one alone: it was cleared after the first completion,
\* and the second simulation, not cancelled, has added its entry
C10_Witness ==
    /\ ~isLoading /\ now = 2
    /\ Len(history) = 1 /\ history[1].timestamp = 1

\* C11: the history is newest first and changes only by a completion, which
\* puts one entry in front of the unchanged entries, or by a clear: every
\* entry was completed later than the entries after it, and a step that
\* changes the history either empties it or keeps the old history as the
\* tail of the new one (whether or not an equal entry is already there).
C11_NewestFirst ==
    /\ [](\A i, j \in 1..Len(history) :
             i < j => history[i].timestamp > history[j].timestamp)
    /\ [][history' # history =>
             \/ history' = << >>
             \/ /\ Tail(history') = history
                /\ isLoading /\ ~isLoading'
                /\ Len(history') = Len(history) + 1]_vars

\* C11 witness: two identical submissions have left two entries that differ
\* in their timestamps only
C11_Witness ==
    /\ Len(history) = 2
    /\ history[1].url = history[2].url
    /\ history[1].format = history[2].format
    /\ history[1].quality = history[2].quality
    /\ history[1].metadata = history[2].metadata
    /\ history[1].timestamp # history[2].timestamp

\* C12 as claimed: the tick that brings the progress to 100 completes the
\* simulation, so no state has a running simulation with the progress at 100.
C12_AsClaimed == ~(isLoading /\ progress = ProgressMax)

\* C12 as amended: the simulation completes in the tick that finds the
\* progress at 100, the tick after the one that brought it there: a tick at
\* less than 100 adds 10 and completes nothing, a step of the simulation at
\* 100 cancels the timer, resets the progress, clears isLoading and adds the
\* entry, and nothing else ends a simulation.
C12_CompletesAfterReaching100 ==
    [][/\ (isLoading /\ progress < ProgressMax /\ progress' # progress) =>
             /\ progress' = progress + ProgressStep
             /\ isLoading' /\ timers' = timers /\ history' = history
       /\ (isLoading /\ progress = ProgressMax /\ progress' # progress) =>
             /\ progress' = 0 /\ ~isLoading' /\ timers' = {}
             /\ Len(history') = Len(history) + 1
       /\ (isLoading /\ ~isLoading') => progress = ProgressMax]_vars

\* C12 witness: a simulation has completed and the state is Idle again
C12_Witness ==
    ~isLoading /\ progress = 0 /\ timers = {} /\ now = 1 /\ Len(history) = 1

\* C13: isLoadingMetadata is true iff a metadata fetch is outstanding.
C13_LoadingTracksFetches == isLoadingMetadata <=> (fetches # {})

\* C14: under fair firing of the timer every started simulation returns to
\* Idle (isLoading false, progress 0, no timer); a timer goes away only in
\* its completing tick, which adds the entry, and while the timer stays the
\* progress is never taken back.
C14_Terminates ==
    /\ isLoading ~> (~isLoading /\ progress = 0 /\ timers = {})
    /\ [][/\ (timers # {} /\ timers' # timers) =>
                /\ timers' = {} /\ progress = ProgressMax
                /\ ~isLoading' /\ progress' = 0
                /\ Len(history') = Len(history) + 1
          /\ (timers # {} /\ timers' = timers) =>
                (isLoading' /\ progress' >= progress)]_vars

\* C14 witness: a simulation went on through a URL edit and a clear of the
\* history, and is at its last tick
C14_Witness ==
    /\ isLoading /\ progress = ProgressMax /\ history = << >> /\ now = 1
    /\ \E t \in timers : t.url # url

\* C15: a fetch for videoId that settles with a JSON object replaces the
\* live metadata by the record of the response's title and author_name, a
\* description equal to the title, and a thumbnailUrl made of videoId alone.
C15_MetadataOfResponse ==
    [][\A f \in fetches, r \in Responses :
          (FetchSettles(f, r) /\ r.kind = "json") =>
              metadata' =
                  Some([title        |-> r.title,
                        author       |-> r.author_name,
                        description  |-> r.title,
                        thumbnailUrl |->
                            <<"https://img.youtube.com/vi/">> \o f.videoId
                                \o <<"/maxresdefault.jpg">>])]_vars

\* C15 witness: two successful fetches for one video answered with different
\* titles; the metadata kept by the running simulation and the live one
\* differ in the title and have the same thumbnailUrl
C15_Witness ==
    /\ metadata # Null
    /\ \E t \in timers :
          /\ t.metadata # Null
          /\ t.metadata[1].title # metadata[1].title
          /\ t.metadata[1].title # Undefined
          /\ metadata[1].title # Undefined
          /\ t.metadata[1].thumbnailUrl = metadata[1].thumbnailUrl

\* the video id a metadata record was fetched for
MetadataId(m) == SubSeq(m.thumbnailUrl, 2, Len(m.thumbnailUrl) - 1)

\* C16: the metadata of every history entry was fetched for the video that
\* the entry's url names.
C16_MetadataBelongsToUrl ==
    \A i \in 1..Len(history) :
        history[i].metadata # Absent =>
            getVideoId(history[i].url) = Some(MetadataId(history[i].metadata[1]))

\* C17: the input coordinator and the download simulator do not interfere,
\* and a format, quality or theme change writes its own variable only.
C17_NoInterference ==
    [][/\ (url' # url \/ metadata' # metadata \/ fetches' # fetches
             \/ isLoadingMetadata' # isLoadingMetadata) =>
            UNCHANGED <<history, progress, isLoading, timers, format,
                        quality, isDarkMode>>
       /\ (history' # history \/ progress' # progress
             \/ isLoading' # isLoading \/ timers' # timers) =>
            UNCHANGED <<url, metadata, isLoadingMetadata, fetches, format,
                        quality, isDarkMode>>
       /\ format' # format =>
            UNCHANGED <<url, metadata, isLoadingMetadata, fetches, history,
                        progress, isLoading, timers, quality, isDarkMode>>
       /\ quality' # quality =>
            UNCHANGED <<url, metadata, isLoadingMetadata, fetches, history,
                        progress, isLoading, timers, format, isDarkMode>>
       /\ isDarkMode' # isDarkMode =>
            UNCHANGED <<url, metadata, isLoadingMetadata, fetches, history,
                        progress, isLoading, timers, format, quality>>]_vars

\* C17 witness: a simulation is under way with a fetch in flight and the
\* format changed
C17_Witness ==
    /\ isLoading /\ progress > 0 /\ progress < ProgressMax
    /\ fetches # {} /\ isLoadingMetadata
    /\ format = "mp3"

\* C18: at most one timer is live, isLoading is true exactly while one is,
\* no tick can fire in Idle, isLoading becomes true only in a submit, that
\* creates the timer, and false only in the tick that clears it.
C18_OneTimer ==
    /\ [](/\ Cardinality(timers) <= 1
          /\ isLoading <=> (timers # {})
          /\ ~isLoading => ~ENABLED (\E t \in timers : Tick(t)))
    /\ [][/\ (~isLoading /\ isLoading') =>
                (timers = {} /\ Cardinality(timers') = 1
                   /\ progress' = progress /\ history' = history)
          /\ (isLoading /\ ~isLoading') =>
                (timers' = {} /\ progress = ProgressMax)
          /\ (~isLoading /\ ~isLoading') => progress' = progress]_vars

\* C18 witness: a second timer is live after the first one was cleared
C18_Witness ==
    /\ isLoading /\ now = 1
    /\ \E t \in timers : t.handle > 2

=============================================================================
